---- MODULE Spec2Model ----
(***************************************************************************)
(* Tool-orchestration core of the agent: GeminiAgent (conversation store,  *)
(* turn processing, intent extraction), AggregatedMCPClient (catalog merge *)
(* and routing) and MCPClient (one backend connection).                    *)
(***************************************************************************)
EXTENDS Integers, Sequences, FiniteSets, TLC

\* ------------------------------------------------------------------------
\* Bounds of the model
\* ------------------------------------------------------------------------
MaxTurns == 2        \* processPrompt calls made in one behaviour
MaxClears == 1       \* clearConversationHistory calls made in one behaviour
MaxStoreClears == 2  \* the same, in the behaviours of the conversation store

Turns == 1..MaxTurns

\* ------------------------------------------------------------------------
\* Strings (JavaScript String / RegExp primitives used by the source)
\* ------------------------------------------------------------------------
CharAt(s, i) == SubSeq(s, i, i)

Includes(s, k) ==
    \E i \in 1..(Len(s) - Len(k) + 1) : SubSeq(s, i, i + Len(k) - 1) = k

StartsWith(s, k) == Len(k) <= Len(s) /\ SubSeq(s, 1, Len(k)) = k

UpperCase == "ABCDEFGHIJKLMNOPQRSTUVWXYZ"
LowerCase == "abcdefghijklmnopqrstuvwxyz"

UpperSet == {CharAt(UpperCase, i) : i \in 1..Len(UpperCase)}
LowerOf ==
    [c \in UpperSet |->
        CharAt(LowerCase, CHOOSE i \in 1..Len(UpperCase) : CharAt(UpperCase, i) = c)]

LowerChar(c) == IF c \in UpperSet THEN LowerOf[c] ELSE c

\* String.prototype.toLowerCase (computed by halves)
RECURSIVE ToLowerCase(_)
ToLowerCase(s) ==
    IF Len(s) = 0 THEN ""
    ELSE IF Len(s) = 1 THEN LowerChar(s)
    ELSE ToLowerCase(SubSeq(s, 1, Len(s) \div 2))
         \o ToLowerCase(SubSeq(s, Len(s) \div 2 + 1, Len(s)))

\* \s of a JavaScript regular expression (the characters the inputs can hold)
IsSpace(c) == c \in {" ", "\t", "\n", "\r", "\f"}

\* \d
IsDigit(c) == c \in {"0", "1", "2", "3", "4", "5", "6", "7", "8", "9"}

\* String.prototype.trim
Trim(s) ==
    LET inked == {i \in 1..Len(s) : ~IsSpace(CharAt(s, i))} IN
    IF inked = {} THEN ""
    ELSE SubSeq(s, CHOOSE i \in inked : \A j \in inked : i <= j,
                   CHOOSE i \in inked : \A j \in inked : i >= j)

\* value of a failed String.prototype.match
NoMatch == [matched |-> FALSE]

\* Positions of s at which the literal k occurs, compared case-insensitively
OccurrencesIn(l, k) ==
    {i \in 1..(Len(l) - Len(k) + 1) : SubSeq(l, i, i + Len(k) - 1) = k}

OccurrencesCI(s, k) == OccurrencesIn(ToLowerCase(s), k)

Min(S) == CHOOSE x \in S : \A y \in S : x <= y

\* ------------------------------------------------------------------------
\* The regular expressions of gemini-agent.ts
\* ------------------------------------------------------------------------
NotSpace(c) == ~IsSpace(c)

\* [:\s]
IsSep(c) == c = ":" \/ IsSpace(c)

\* [^,\n]
IsField(c) == c # "," /\ c # "\n"

\* ['"]
IsQuote(c) == c = "'" \/ c = "\""

\* [\d\s\-\(\)]
IsPhoneChar(c) == IsDigit(c) \/ IsSpace(c) \/ c \in {"-", "(", ")"}

\* Membership of a character in one of the character classes above
InClass(cls, c) ==
    CASE cls = "NotSpace" -> NotSpace(c)
      [] cls = "Sep" -> IsSep(c)
      [] cls = "Field" -> IsField(c)
      [] cls = "PhoneChar" -> IsPhoneChar(c)

\* Length of the maximal run of characters of s from position p on that
\* belong to the class (a character class followed by +, greedy)
RunLen(s, p, cls) ==
    LET stops == {q \in p..Len(s) : ~InClass(cls, CharAt(s, q))} IN
    IF p > Len(s) THEN 0
    ELSE IF stops = {} THEN Len(s) - p + 1
    ELSE Min(stops) - p

\* /https?:\/\/[^\s]+/  (case-sensitive): the first match, match[0]
UrlStartsAt(s, i) ==
    \/ /\ SubSeq(s, i, i + 6) = "http://"
       /\ RunLen(s, i + 7, "NotSpace") > 0
    \/ /\ i + 7 <= Len(s)
       /\ SubSeq(s, i, i + 7) = "https://"
       /\ RunLen(s, i + 8, "NotSpace") > 0

UrlMatch(s) ==
    LET starts == {i \in 1..Len(s) : i + 6 <= Len(s) /\ UrlStartsAt(s, i)} IN
    IF starts = {} THEN NoMatch
    ELSE LET i == Min(starts) IN
         [matched |-> TRUE, group |-> SubSeq(s, i, i + RunLen(s, i, "NotSpace") - 1)]

\* /send email to ([^\s]+@[^\s]+)/i : the first match, match[1].  Both
\* [^\s]+ are greedy and '@' is itself a non-space character, so the group
\* is the whole run of non-space characters after "send email to ", which
\* must hold an '@' that is neither its first nor its last character.
EmailTokenAt(s, i) ==
    LET q == i + Len("send email to ") IN SubSeq(s, q, q + RunLen(s, q, "NotSpace") - 1)

EmailMatch(s) ==
    LET starts == {i \in OccurrencesCI(s, "send email to ") :
                     LET tok == EmailTokenAt(s, i) IN
                     \E j \in 2..(Len(tok) - 1) : CharAt(tok, j) = "@"} IN
    IF starts = {} THEN NoMatch
    ELSE [matched |-> TRUE, group |-> EmailTokenAt(s, Min(starts))]

\* /\+?[\d\s\-\(\)]+/ : the first match, match[0]
PhoneStartsAt(s, i) ==
    \/ IsPhoneChar(CharAt(s, i))
    \/ CharAt(s, i) = "+" /\ RunLen(s, i + 1, "PhoneChar") > 0

PhoneMatch(s) ==
    LET starts == {i \in 1..Len(s) : PhoneStartsAt(s, i)} IN
    IF starts = {} THEN NoMatch
    ELSE LET i == Min(starts)
             q == IF CharAt(s, i) = "+" THEN i + 1 ELSE i
         IN [matched |-> TRUE, group |-> SubSeq(s, i, q + RunLen(s, q, "PhoneChar") - 1)]

\* The tail  [:\s]+['"]?([^,\n]+?)['"]?  tried right after a keyword that
\* ends before position p, with the separator run cut to m characters
\* (greedy first, backtracking to shorter runs).  The group is lazy and
\* nothing that must match follows it, so it is a single character.
RECURSIVE LazyTail(_, _, _)
LazyTail(s, p, m) ==
    LET q == p + m IN
    IF m < 1 THEN NoMatch
    ELSE IF q + 1 <= Len(s) /\ IsQuote(CharAt(s, q)) /\ IsField(CharAt(s, q + 1))
         THEN [matched |-> TRUE, group |-> CharAt(s, q + 1)]
    ELSE IF q <= Len(s) /\ IsField(CharAt(s, q))
         THEN [matched |-> TRUE, group |-> CharAt(s, q)]
    ELSE LazyTail(s, p, m - 1)

\* The tail  [:\s]+([^,\n]+)  : the group is greedy
RECURSIVE GreedyTail(_, _, _)
GreedyTail(s, p, m) ==
    LET q == p + m IN
    IF m < 1 THEN NoMatch
    ELSE IF q <= Len(s) /\ IsField(CharAt(s, q))
         THEN [matched |-> TRUE, group |-> SubSeq(s, q, q + RunLen(s, q, "Field") - 1)]
    ELSE GreedyTail(s, p, m - 1)

\* (?:k1|k2|...) at position i followed by one of the tails: alternatives
\* are tried in order, the first that lets the whole expression match wins
\* (l is s in lower case: the expressions carry the i flag)
RECURSIVE AltAt(_, _, _, _, _)
AltAt(s, l, i, kws, lazy) ==
    IF kws = <<>> THEN NoMatch
    ELSE LET k == Head(kws)
             p == i + Len(k)
             r == IF i + Len(k) - 1 <= Len(s) /\ SubSeq(l, i, p - 1) = k
                  THEN IF lazy THEN LazyTail(s, p, RunLen(s, p, "Sep"))
                               ELSE GreedyTail(s, p, RunLen(s, p, "Sep"))
                  ELSE NoMatch
         IN IF r.matched THEN r ELSE AltAt(s, l, i, Tail(kws), lazy)

\* String.prototype.match for /(?:k1|k2)<tail>/i : leftmost match, match[1]
KeywordMatchIn(s, l, kws, lazy) ==
    LET starts == {i \in 1..Len(s) : AltAt(s, l, i, kws, lazy).matched} IN
    IF starts = {} THEN NoMatch ELSE AltAt(s, l, Min(starts), kws, lazy)

KeywordMatch(s, kws, lazy) == KeywordMatchIn(s, ToLowerCase(s), kws, lazy)

\* ------------------------------------------------------------------------
\* GeminiAgent: argument extraction helpers
\* ------------------------------------------------------------------------
\* value of a JavaScript null
Null == "<null>"

determineExtractionType(userPrompt) ==
    LET prompt == ToLowerCase(userPrompt) IN
    IF Includes(prompt, "email") THEN "emails"
    ELSE IF Includes(prompt, "url") THEN "urls"
    ELSE IF Includes(prompt, "date") THEN "dates"
    ELSE IF Includes(prompt, "name") THEN "names"
    ELSE Null

extractEmailSubject(userPrompt) ==
    LET subjectMatch == KeywordMatch(userPrompt, <<"subject">>, TRUE)
        withSubjectMatch == KeywordMatch(userPrompt, <<"with subject">>, TRUE)
        aboutMatch == KeywordMatch(userPrompt, <<"about", "regarding">>, TRUE)
    IN IF subjectMatch.matched THEN Trim(subjectMatch.group)
       ELSE IF withSubjectMatch.matched THEN Trim(withSubjectMatch.group)
       ELSE IF (Includes(userPrompt, "about") \/ Includes(userPrompt, "regarding"))
               /\ aboutMatch.matched
            THEN Trim(aboutMatch.group)
       ELSE "Message from AI Assistant"

extractEmailBody(userPrompt) ==
    LET bodyMatch == KeywordMatch(userPrompt, <<"body">>, TRUE)
        andBodyMatch == KeywordMatch(userPrompt, <<"and body">>, TRUE)
        messageMatch == KeywordMatch(userPrompt, <<"message">>, TRUE)
        sayingMatch == KeywordMatch(userPrompt, <<"saying", "with message">>, TRUE)
    IN IF bodyMatch.matched THEN Trim(bodyMatch.group)
       ELSE IF andBodyMatch.matched THEN Trim(andBodyMatch.group)
       ELSE IF messageMatch.matched THEN Trim(messageMatch.group)
       ELSE IF sayingMatch.matched THEN Trim(sayingMatch.group)
       ELSE "This is an automated message sent by your AI assistant."

extractMessageContent(userPrompt) ==
    LET messageMatch == KeywordMatch(userPrompt, <<"message">>, FALSE)
        sayingMatch == KeywordMatch(userPrompt, <<"saying", "with">>, FALSE)
    IN IF messageMatch.matched THEN Trim(messageMatch.group)
       ELSE IF sayingMatch.matched THEN Trim(sayingMatch.group)
       ELSE "Hello from your AI assistant!"

extractEventTitle(userPrompt) ==
    LET titleMatch == KeywordMatch(userPrompt, <<"event">>, FALSE)
        meetingMatch == KeywordMatch(userPrompt, <<"meeting", "appointment">>, FALSE)
    IN IF titleMatch.matched THEN Trim(titleMatch.group)
       ELSE IF (Includes(userPrompt, "meeting") \/ Includes(userPrompt, "appointment"))
               /\ meetingMatch.matched
            THEN Trim(meetingMatch.group)
       ELSE "AI Assistant Event"

\* The last instant a Date can hold (time value 8.64e15), as toISOString
\* writes it and as new Date parses it
LastInstant == "+275760-09-13T00:00:00.000Z"

\* new Date(timeStr): the date strings the inputs hold that Date can parse,
\* with their toISOString(); every other string is an Invalid Date
ParsedDate(timeStr) ==
    CASE timeStr = "2025-01-01" -> "2025-01-01T00:00:00.000Z"
      [] timeStr = LastInstant -> LastInstant
      [] OTHER -> Null

\* new Date(Date.now() + 60 * 60 * 1000).toISOString()
OneHourFromNow == "<now+1h>"

extractEventTime(userPrompt) ==
    LET timeMatch == KeywordMatch(userPrompt, <<"at", "on", "for">>, FALSE) IN
    IF timeMatch.matched /\ ParsedDate(Trim(timeMatch.group)) # Null
    THEN ParsedDate(Trim(timeMatch.group))
    ELSE OneHourFromNow

\* String.prototype.replace(/['"]/g, '')
RECURSIVE StripQuotes(_)
StripQuotes(s) ==
    IF Len(s) = 0 THEN ""
    ELSE IF Len(s) = 1 THEN (IF IsQuote(s) THEN "" ELSE s)
    ELSE StripQuotes(SubSeq(s, 1, Len(s) \div 2))
         \o StripQuotes(SubSeq(s, Len(s) \div 2 + 1, Len(s)))

\* String.prototype.replace(/[\s\-\(\)]/g, '')
RECURSIVE StripPhonePunct(_)
StripPhonePunct(s) ==
    IF Len(s) = 0 THEN ""
    ELSE IF Len(s) = 1 THEN (IF IsSpace(s) \/ s \in {"-", "(", ")"} THEN "" ELSE s)
    ELSE StripPhonePunct(SubSeq(s, 1, Len(s) \div 2))
         \o StripPhonePunct(SubSeq(s, Len(s) \div 2 + 1, Len(s)))

\* ------------------------------------------------------------------------
\* Backends and their clients
\* ------------------------------------------------------------------------
\* The three MCPClients of the AggregatedMCPClient, in the order in which
\* getAvailableTools merges their lists
Backends == <<"enhanced", "firecrawl", "composio">>
BackendSet == {Backends[i] : i \in DOMAIN Backends}

\* The clients handed to the AggregatedMCPClient constructor
Clients == BackendSet

\* Tool lists a backend may answer GET /tools with (names only).  The
\* backend behind each URL is configuration: the second firecrawl choice is
\* a server that also offers a tool called web_scraper.
ServedChoices(b) ==
    CASE b = "enhanced" -> {<<"web_scraper", "data_extractor">>}
      [] b = "firecrawl" -> {<<"firecrawl_scraper">>, <<"firecrawl_scraper", "web_scraper">>}
      [] b = "composio" -> {<<"composio_send_email", "composio_whatsapp_message",
                              "composio_calendar_event">>}

\* What each backend serves: every deployment, and the one of the README
Deployments == {d \in [BackendSet -> UNION {ServedChoices(b) : b \in BackendSet}] :
                   \A b \in BackendSet : d[b] \in ServedChoices(b)}

StandardDeployment ==
    [b \in BackendSet |->
        CASE b = "enhanced" -> <<"web_scraper", "data_extractor">>
          [] b = "firecrawl" -> <<"firecrawl_scraper">>
          [] b = "composio" -> <<"composio_send_email", "composio_whatsapp_message",
                                 "composio_calendar_event">>]

\* An entry of the list returned by MCPClient.getAvailableTools for the
\* MCPTool called n of backend b; the description is the backend's own text
ToolOf(b, n) ==
    [type |-> "function", function |-> [name |-> n, description |-> b \o ": " \o n]]

\* response.data.map(...) of MCPClient.getAvailableTools
MapTools(b, names) == [i \in DOMAIN names |-> ToolOf(b, names[i])]

\* ------------------------------------------------------------------------
\* State
\* ------------------------------------------------------------------------
VARIABLES
    served,          \* backend -> the tool names its /tools endpoint lists
    isConnected,     \* MCPClient.isConnected, per backend
    availableTools,  \* MCPClient.availableTools, per backend
    initPc,          \* position of initializeAgent / GeminiAgent.initialize
    probes,          \* connect() promises of AggregatedMCPClient.connect
    listing,         \* index of the client getAvailableTools is awaiting
    listed,          \* local `tools` of AggregatedMCPClient.getAvailableTools
    tools,           \* GeminiAgent.tools
    isInitialized,   \* isInitialized of the web API server
    wire             \* per client: whether a connect() succeeded since it was
                     \* constructed or last disconnected, whether it was ever
                     \* disconnected and a connect() failed since, the request
                     \* a direct caller of the client has in flight, what
                     \* became of that caller's last call (sent or refused),
                     \* and whether a connect() had succeeded at that call

backendVars == <<served, isConnected, availableTools, initPc, probes, listing,
                 listed, tools, isInitialized, wire>>

VARIABLES
    histories,   \* GeminiAgent.histories: per conversation id the Message[]
                 \* objects stored under it so far; the last one is the
                 \* Map's entry (none stored: the Map has no such key)
    turns,       \* the processPrompt calls: position and locals of each
    requests,    \* execute requests sent to the backends so far
    clears,      \* number of clearConversationHistory calls made
    writer,      \* for each Message[], the turn that pushed each message (0: none)
    pre,         \* per turn: the conversation's messages when the turn began
    alone,       \* per turn: nothing else touched its conversation since it began
    appended,    \* per conversation id: the messages pushed, in order, onto
                 \* the Message[] the Map holds for it since it was stored
    snapshot,    \* the array a caller of getConversationHistory got and kept
    chat         \* per turn begun by POST /api/chat: the conversationId of
                 \* the request body

agentVars == <<histories, turns, requests, clears, writer, pre, alone, appended,
               snapshot, chat>>

vars == <<backendVars, agentVars>>

\* ------------------------------------------------------------------------
\* MCPClient
\* ------------------------------------------------------------------------
\* A client just constructed: no connect() succeeded, nothing in flight, no
\* call made
NoWire ==
    [succeeded |-> FALSE, disconnected |-> FALSE, retried |-> FALSE,
     pending |-> "none", last |-> "none", entitled |-> FALSE]

\* MCPClient.connect settles: GET /info answered 200 (ok) or not
MCPClient_connect(b, ok) ==
    /\ isConnected' = IF ok THEN [isConnected EXCEPT ![b] = TRUE] ELSE isConnected
    /\ wire' = [wire EXCEPT ![b].succeeded = @ \/ ok,
                            ![b].retried = @ \/ (wire[b].disconnected /\ ~ok)]

\* MCPClient.getAvailableTools: it throws when the client is not connected
\* or GET /tools is not answered 200 with an array (ok = FALSE), and else
\* returns the mapped list, which it also keeps in availableTools
MCPClient_getAvailableTools(b, ok) ==
    IF isConnected[b] /\ ok
    THEN [threw |-> FALSE, value |-> MapTools(b, served[b])]
    ELSE [threw |-> TRUE, value |-> <<>>]

\* Fault: a disconnect that forgets the tool list and keeps the flag
MCPClient_disconnectKeepsFlag(b) ==
    /\ isConnected' = isConnected
    /\ availableTools' = [availableTools EXCEPT ![b] = <<>>]
    /\ wire' = [wire EXCEPT ![b].succeeded = FALSE, ![b].disconnected = TRUE,
                            ![b].retried = FALSE]

\* MCPClient.disconnect: isConnected = false, availableTools = []
MCPClient_disconnect(b) ==
    /\ isConnected' = [isConnected EXCEPT ![b] = FALSE]
    /\ availableTools' = [availableTools EXCEPT ![b] = <<>>]
    /\ wire' = [wire EXCEPT ![b].succeeded = FALSE, ![b].disconnected = TRUE,
                            ![b].retried = FALSE]

\* A caller of the client of backend b disconnects it
Disconnect(b) ==
    /\ MCPClient_disconnect(b)
    /\ UNCHANGED <<served, initPc, probes, listing, listed, tools, isInitialized>>
    /\ UNCHANGED agentVars

\* A caller of the client of backend b calls getAvailableTools (kind "tools":
\* GET /tools) or executeTool (kind "execute": POST /tools/<name>/execute),
\* up to the await: 'MCP client not connected' is thrown before anything is
\* sent when isConnected is false, and else the request is sent
ClientCall(b, kind) ==
    /\ wire[b].pending = "none"
    /\ wire' = [wire EXCEPT ![b].pending = IF isConnected[b] THEN kind ELSE "none",
                            ![b].last = IF isConnected[b] THEN "sent" ELSE "refused",
                            ![b].entitled = wire[b].succeeded]
    /\ UNCHANGED <<served, isConnected, availableTools, initPc, probes, listing,
                   listed, tools, isInitialized>>
    /\ UNCHANGED agentVars

\* The request of that call is answered, 200 (ok) or not; a tool list that
\* arrives is kept in availableTools
ClientSettle(b, ok) ==
    /\ wire[b].pending # "none"
    /\ availableTools' = IF wire[b].pending = "tools" /\ ok
                         THEN [availableTools EXCEPT ![b] = MapTools(b, served[b])]
                         ELSE availableTools
    /\ wire' = [wire EXCEPT ![b].pending = "none"]
    /\ UNCHANGED <<served, isConnected, initPc, probes, listing, listed, tools,
                   isInitialized>>
    /\ UNCHANGED agentVars

\* ------------------------------------------------------------------------
\* AggregatedMCPClient
\* ------------------------------------------------------------------------
\* Fault: isInitialized is set when initializeAgent starts
StartInitializeEager ==
    /\ initPc = "new"
    /\ initPc' = "connect"
    /\ probes' = [b \in BackendSet |-> IF b \in Clients THEN "pending" ELSE "none"]
    /\ isInitialized' = TRUE
    /\ UNCHANGED <<served, isConnected, availableTools, listing, listed, tools>>
    /\ UNCHANGED <<wire, agentVars>>

\* AggregatedMCPClient.connect: one connect() per client, all started at once
StartInitialize ==
    /\ initPc = "new"
    /\ initPc' = "connect"
    /\ probes' = [b \in BackendSet |-> IF b \in Clients THEN "pending" ELSE "none"]
    /\ UNCHANGED <<served, isConnected, availableTools, listing, listed, tools,
                   isInitialized>>
    /\ UNCHANGED <<wire, agentVars>>

\* initializeAgent throws before agent.initialize (GOOGLE_API_KEY is not
\* set) or agent.initialize rethrows what mcpClient.connect or
\* getAvailableTools threw (the server of one MCPClient): the catch logs the
\* error and sets isInitialized = false
InitializeFails ==
    /\ initPc \in {"new", "connect", "list"}
    /\ initPc' = "failed"
    /\ isInitialized' = FALSE
    /\ UNCHANGED <<served, isConnected, availableTools, probes, listing, listed,
                   tools, wire>>
    /\ UNCHANGED agentVars

\* one of the connect() promises settles; a rejection is caught and logged
ConnectSettle(b, ok) ==
    /\ initPc = "connect"
    /\ probes[b] = "pending"
    /\ MCPClient_connect(b, ok)
    /\ probes' = [probes EXCEPT ![b] = IF ok THEN "up" ELSE "down"]
    /\ UNCHANGED <<served, availableTools, initPc, listing, listed, tools,
                   isInitialized>>
    /\ UNCHANGED agentVars

\* Promise.all(connectPromises) resolves; getAvailableTools starts
ConnectDone ==
    /\ initPc = "connect"
    /\ \A b \in BackendSet : probes[b] # "pending"
    /\ initPc' = "list"
    /\ listing' = 1
    /\ listed' = <<>>
    /\ UNCHANGED <<served, isConnected, availableTools, probes, tools, isInitialized>>
    /\ UNCHANGED <<wire, agentVars>>

\* Fault: a merge that puts each client's list in front of the others
MergeToolsInFront(merged, r) == (IF r.threw THEN <<>> ELSE r.value) \o merged

\* tools.push(...list) of AggregatedMCPClient.getAvailableTools; a client
\* whose getAvailableTools threw contributes []
MergeTools(merged, r) == merged \o (IF r.threw THEN <<>> ELSE r.value)

\* The client awaited by getAvailableTools answers.  After the last one the
\* merged list is returned, GeminiAgent.initialize stores it in this.tools
\* and initializeAgent sets isInitialized.
GetToolsSettle(ok) ==
    /\ initPc = "list"
    /\ LET b == Backends[listing]
           r == MCPClient_getAvailableTools(b, ok)
           merged == IF b \in Clients THEN MergeTools(listed, r) ELSE listed
       IN /\ availableTools' = IF r.threw THEN availableTools
                                ELSE [availableTools EXCEPT ![b] = r.value]
          /\ listed' = merged
          /\ IF listing < Len(Backends)
             THEN /\ listing' = listing + 1
                  /\ UNCHANGED <<initPc, tools, isInitialized>>
             ELSE /\ listing' = 0
                  /\ initPc' = "done"
                  /\ tools' = merged
                  /\ isInitialized' = TRUE
    /\ UNCHANGED <<served, isConnected, probes>>
    /\ UNCHANGED <<wire, agentVars>>

\* A later MCPClient.connect() call on the client of backend b (the method
\* is public: a caller may probe again on demand), answered 200 (ok) or not
Reconnect(b, ok) ==
    /\ initPc = "done"
    /\ b \in Clients
    /\ MCPClient_connect(b, ok)
    /\ probes' = [probes EXCEPT ![b] = IF ok THEN "up" ELSE "down"]
    /\ UNCHANGED <<served, availableTools, initPc, listing, listed, tools,
                   isInitialized>>
    /\ UNCHANGED agentVars

\* GET /api/tools: a later AggregatedMCPClient.getAvailableTools call starts
StartRefresh ==
    /\ initPc = "done"
    /\ isInitialized
    /\ initPc' = "refresh"
    /\ listing' = 1
    /\ listed' = <<>>
    /\ UNCHANGED <<served, isConnected, availableTools, probes, tools, isInitialized>>
    /\ UNCHANGED <<wire, agentVars>>

\* The client awaited by that call answers.  After the last one the merged
\* list is returned to the handler, which sends it (listed keeps it);
\* GeminiAgent.tools is not touched.
RefreshSettle(ok) ==
    /\ initPc = "refresh"
    /\ LET b == Backends[listing]
           r == MCPClient_getAvailableTools(b, ok)
           merged == IF b \in Clients THEN MergeTools(listed, r) ELSE listed
       IN /\ availableTools' = IF r.threw THEN availableTools
                                ELSE [availableTools EXCEPT ![b] = r.value]
          /\ listed' = merged
          /\ IF listing < Len(Backends)
             THEN /\ listing' = listing + 1
                  /\ UNCHANGED initPc
             ELSE /\ listing' = 0
                  /\ initPc' = "done"
    /\ UNCHANGED <<served, isConnected, probes, tools, isInitialized>>
    /\ UNCHANGED <<wire, agentVars>>

\* Execute a tool by routing to the appropriate client: the client that
\* AggregatedMCPClient.executeTool hands the call to, chosen from the tool
\* name alone ("none": no client, the call throws 'No MCP client available')
RouteOf(name) ==
    IF StartsWith(name, "composio_") /\ "composio" \in Clients THEN "composio"
    ELSE IF (StartsWith(name, "firecrawl_") \/ Includes(name, "firecrawl"))
            /\ "firecrawl" \in Clients THEN "firecrawl"
    ELSE IF "enhanced" \in Clients THEN "enhanced"
    ELSE IF "composio" \in Clients THEN "composio"
    ELSE IF "firecrawl" \in Clients THEN "firecrawl"
    ELSE "none"

\* ------------------------------------------------------------------------
\* GeminiAgent: inputs
\* ------------------------------------------------------------------------
\* config.agentInstructions (the default of initializeAgent)
agentInstructions ==
    "You are a helpful AI assistant that can access web data and perform various tasks."

\* Utterances given to processPrompt
Prompts ==
    {"What is the capital of France?",
     "extract email from url http://x.io",
     "Send email to a@b.com about Test with message Hello"}

\* An utterance whose event starts at the last instant a Date can hold
LatePrompts == {"extract email, schedule event on +275760-09-13T00:00:00.000Z"}

\* Utterances that hold none of the substrings the tool families look for,
\* the second with a URL, an e-mail address, a phone number and the
\* "about"/"with message" fields the families would extract
QuietPrompts ==
    {"What is the capital of France?",
     "a@b.com http://x.io +1 555 about x with message y"}

\* Utterances that pass the keyword gate of a family: an address without
\* "send email to", a scrape request without a URL, an email request that
\* comes before a scrape request, and the WhatsApp example of the README
ArgumentPrompts ==
    {"email a@b.com about Test",
     "scrape the homepage",
     "send email to a@b.com about x, extract url http://x.io",
     "Send WhatsApp message to +1234567890 saying \"Hello! How are you today?\""}

Utterances == Prompts \cup LatePrompts \cup QuietPrompts \cup ArgumentPrompts

\* Texts the completion service answers the initial request with
Replies == {"Paris.", "I will use the web tool."}

\* Text the completion service answers the synthesis request with
FinalTexts == {"Here is what the tools found."}

\* Value of an omitted argument
Undefined == "<undefined>"

\* conversationId arguments of the public methods
ConversationArgs == {Undefined, "", "c1"}

\* Keys the conversation store can hold for these arguments
ConvIds == {"default", "c1"}

\* Body of a 200 answer to POST /tools/<name>/execute
Payloads == {[success |-> TRUE]}

\* JSON.stringify of such a body
JSONStringify(result) ==
    IF result.success THEN "{\"success\":true}" ELSE "{\"success\":false}"

\* ------------------------------------------------------------------------
\* GeminiAgent: intent extraction (executeToolsAndRespond, lines 179-307)
\* ------------------------------------------------------------------------
toolKeywords ==
    <<"scrape", "extract", "web", "url", "website", "data",
      "email", "send", "mail", "whatsapp", "slack", "message",
      "calendar", "event", "schedule", "crm", "contact",
      "file", "upload", "database", "query", "webhook">>

\* shouldUseTools, but for its `&& this.tools.length > 0`
hasToolKeywords(assistantMessage, userPrompt) ==
    \E i \in DOMAIN toolKeywords :
        \/ Includes(ToLowerCase(userPrompt), toolKeywords[i])
        \/ Includes(ToLowerCase(assistantMessage), toolKeywords[i])

\* The tool families in the order executeToolsAndRespond evaluates them
Families ==
    <<"web_scraper", "data_extractor", "composio_send_email",
      "composio_whatsapp_message", "composio_calendar_event">>

NoRequest == [issued |-> FALSE]

sampleContent ==
    "Contact us at example@test.com or visit https://example.com for more info."

\* Date.prototype.toISOString called on an Invalid Date throws
RangeError == "<RangeError: Invalid time value>"

\* toISOString of the instant one hour after the instant startTime names;
\* past the last instant the Date is invalid
OneHourAfter(startTime) ==
    CASE startTime = "2025-01-01T00:00:00.000Z" -> "2025-01-01T01:00:00.000Z"
      [] startTime = LastInstant -> RangeError
      [] OTHER -> "<now+2h>"

\* The family throws while it builds its execReq, outside its own try
BuildThrows == [issued |-> TRUE, threw |-> TRUE]

Threw(execReq) == "threw" \in DOMAIN execReq

\* Fault: the web scraping family is not gated by 'scrape' / 'url'
FamilyRequestUngated(f, userPrompt) ==
    IF f = 1 /\ UrlMatch(userPrompt).matched
    THEN [issued |-> TRUE, name |-> "web_scraper",
          arguments |-> [url |-> UrlMatch(userPrompt).group]]
    ELSE NoRequest

\* The execReq family f builds for the utterance, if it builds one
FamilyRequest(f, userPrompt) ==
    LET lower == ToLowerCase(userPrompt) IN
    CASE f = 1 ->
           LET urlMatch == UrlMatch(userPrompt) IN
           IF (Includes(lower, "scrape") \/ Includes(lower, "url")) /\ urlMatch.matched
           THEN [issued |-> TRUE, name |-> "web_scraper",
                 arguments |-> [url |-> urlMatch.group]]
           ELSE NoRequest
      [] f = 2 ->
           LET extractionType == determineExtractionType(userPrompt) IN
           IF (Includes(lower, "extract") \/ Includes(lower, "email"))
              /\ extractionType # Null
           THEN [issued |-> TRUE, name |-> "data_extractor",
                 arguments |-> [content |-> sampleContent,
                                extraction_type |-> extractionType]]
           ELSE NoRequest
      [] f = 3 ->
           LET emailMatch == EmailMatch(userPrompt)
               subject == extractEmailSubject(userPrompt)
               body == extractEmailBody(userPrompt)
           IN IF (Includes(lower, "send email") \/ Includes(lower, "email"))
                 /\ emailMatch.matched /\ subject # "" /\ body # ""
              THEN [issued |-> TRUE, name |-> "composio_send_email",
                    arguments |-> [to |-> emailMatch.group,
                                   subject |-> Trim(StripQuotes(subject)),
                                   body |-> Trim(StripQuotes(body))]]
              ELSE NoRequest
      [] f = 4 ->
           LET phoneMatch == PhoneMatch(userPrompt)
               message == extractMessageContent(userPrompt)
           IN IF (Includes(lower, "whatsapp") \/ Includes(lower, "send message"))
                 /\ phoneMatch.matched /\ message # ""
              THEN [issued |-> TRUE, name |-> "composio_whatsapp_message",
                    arguments |-> [phoneNumber |-> "+" \o StripPhonePunct(phoneMatch.group),
                                   message |-> message]]
              ELSE NoRequest
      [] f = 5 ->
           LET eventTitle == extractEventTitle(userPrompt)
               eventTime == extractEventTime(userPrompt)
           IN IF (Includes(lower, "calendar") \/ Includes(lower, "schedule")
                    \/ Includes(lower, "event"))
                 /\ eventTitle # "" /\ eventTime # ""
              THEN IF OneHourAfter(eventTime) = RangeError
                   THEN BuildThrows
                   ELSE [issued |-> TRUE, name |-> "composio_calendar_event",
                         arguments |-> [title |-> eventTitle, startTime |-> eventTime,
                                        endTime |-> OneHourAfter(eventTime)]]
              ELSE NoRequest

\* The requests of every input utterance, family by family
RequestsOf == [p \in Utterances |-> [f \in DOMAIN Families |-> FamilyRequest(f, p)]]

\* The first family from `from` on that issues one of the requests execReqs
\* (0: none is left)
FirstOf(fs) == IF fs = {} THEN 0 ELSE Min(fs)

\* Fault: the families are gone through from the last to build a request
NextFamilyLast(execReqs, from) ==
    LET fs == {f \in from..Len(Families) : execReqs[f].issued} IN
    IF fs = {} THEN 0 ELSE CHOOSE x \in fs : \A y \in fs : y <= x

NextFamily(execReqs, from) ==
    FirstOf({f \in from..Len(Families) : execReqs[f].issued})

\* userPrompt/assistantMessage pairs for which hasToolKeywords holds
KeywordPairs ==
    {pr \in Replies \X Utterances : hasToolKeywords(pr[1], pr[2])}

\* ------------------------------------------------------------------------
\* GeminiAgent: conversation store and turns
\* ------------------------------------------------------------------------
SystemMessage == [role |-> "system", content |-> agentInstructions]

\* `conversationId || 'default'`
IdOf(conversationId) ==
    IF conversationId = Undefined \/ conversationId = "" THEN "default" ELSE conversationId

\* The array the constructor and ensureHistory store for a new conversation
InitialHistory == <<SystemMessage>>

\* this.histories.has(id)
Has(h, id) == Len(h[id]) > 0

\* ensureHistory: the store after it
Ensured(h, id) == IF Has(h, id) THEN h ELSE [h EXCEPT ![id] = <<InitialHistory>>]

EnsuredWriter(h, w, id) ==
    IF Has(h, id) THEN w ELSE [w EXCEPT ![id] = <<[i \in DOMAIN InitialHistory |-> 0]>>]

\* this.histories.get(id): the reference, and the messages it holds
RefOf(h, id) == Len(h[id])
HistoryOf(id) == histories[id][RefOf(histories, id)]

NoCall == [name |-> "", target |-> "none", sent |-> FALSE]

\* No array of getConversationHistory is kept by a caller
NoSnapshot ==
    [taken |-> FALSE, id |-> "", shared |-> FALSE, ref |-> 0, messages |-> <<>>,
     edited |-> FALSE]

IdleTurn ==
    [pc |-> "idle", userPrompt |-> "", convId |-> "", history |-> 0,
     assistantMessage |-> "", execReqs |-> <<>>, toolResults |-> <<>>,
     family |-> 0, call |-> NoCall, result |-> ""]

Returned(t) ==
    turns[t].pc \in {"returned_plain", "returned_final", "returned_noresults",
                     "returned_catch"}
Finished(t) == Returned(t) \/ turns[t].pc = "thrown"
InFlight(t) == turns[t].pc \in {"initial", "tool", "synthesis"}

\* Ghost bookkeeping: turn `by` (0: a clear) touches conversation id
Touched(by, id) ==
    [t \in Turns |->
        IF t # by /\ turns[t].pc # "idle" /\ turns[t].convId = id THEN FALSE ELSE alone[t]]

\* The locals of a call that has returned `result` at the return site pc
Return(tr, pc, result) ==
    [IdleTurn EXCEPT !.pc = pc, !.userPrompt = tr.userPrompt, !.convId = tr.convId,
                     !.history = tr.history, !.result = result]

\* AggregatedMCPClient.executeTool followed by MCPClient.executeTool up to
\* its await: the call is handed to one client, which sends the POST only
\* if it is connected and else throws 'MCP client not connected'
ExecuteToolCall(name) ==
    LET b == RouteOf(name) IN
    [name |-> name, target |-> b, sent |-> (b # "none" /\ isConnected[b])]

\* Fault: the synthesis request is sent whether or not there are results
ProceedToSynthesis(tr, nf) ==
    IF nf # 0
    THEN [tr EXCEPT !.pc = "tool", !.family = nf,
                    !.call = ExecuteToolCall(tr.execReqs[nf].name)]
    ELSE [tr EXCEPT !.pc = "synthesis", !.family = 0, !.call = NoCall]

\* The locals of the turn tr whose family nf hands its execReq to executeTool
\* (nf = 0: no family is left, so the synthesis request is sent if there are
\* results, and else assistantMessage is returned); a family that throws
\* while it builds its execReq reaches the catch of executeToolsAndRespond,
\* which returns assistantMessage
Proceed(tr, nf) ==
    IF nf # 0 /\ Threw(tr.execReqs[nf])
    THEN Return(tr, "returned_catch", tr.assistantMessage)
    ELSE IF nf # 0
    THEN [tr EXCEPT !.pc = "tool", !.family = nf,
                    !.call = ExecuteToolCall(tr.execReqs[nf].name)]
    ELSE IF Len(tr.toolResults) > 0
    THEN [tr EXCEPT !.pc = "synthesis", !.family = 0, !.call = NoCall]
    ELSE Return(tr, "returned_noresults", tr.assistantMessage)

\* executeToolsAndRespond from family `from` on, up to its next await, for
\* the turn whose locals are tr (tr.execReqs: the execReq each family builds
\* from tr.userPrompt)
AfterTools(tr, from) == Proceed(tr, NextFamily(tr.execReqs, from))

\* The requests sent once the turn t has moved on to the locals tr
RequestsAfter(t, tr) ==
    IF tr.pc = "tool" /\ tr.call.sent
    THEN requests \cup {[backend |-> tr.call.target, name |-> tr.call.name, turn |-> t]}
    ELSE requests

\* Fault: the message is put in front of the others
PushedInFront(h, id, ref, message) == [h EXCEPT ![id][ref] = <<message>> \o @]

\* Fault: one Message[] shared by every conversation
PushedToDefault(h, id, ref, message) ==
    [h EXCEPT !["default"][Len(h["default"])] = Append(@, message)]

\* history.push(message) on the Message[] `ref` of conversation id, by turn t
Pushed(h, id, ref, message) == [h EXCEPT ![id][ref] = Append(@, message)]
PushedBy(w, id, ref, t) == [w EXCEPT ![id][ref] = Append(@, t)]

\* Ghost bookkeeping: the pushes onto the Message[] the Map holds for id,
\* after a push of message onto the Message[] `ref`
AppendedAfterPush(h, id, ref, message) ==
    IF ref = RefOf(h, id) THEN [appended EXCEPT ![id] = Append(@, message)] ELSE appended

\* Ghost bookkeeping of a push by turn t with locals tr
AloneAfterPush(t, tr) ==
    IF tr.history = RefOf(histories, tr.convId) THEN Touched(t, tr.convId) ELSE alone

\* processPrompt up to `await chat.sendMessage(enhancedPrompt)`
ProcessPrompt(t, userPrompt, conversationId) ==
    /\ isInitialized
    /\ turns[t].pc = "idle"
    /\ \A u \in Turns : u < t => turns[u].pc # "idle"
    /\ LET convId == IdOf(conversationId)
           h == Ensured(histories, convId)
           w == EnsuredWriter(histories, writer, convId)
           history == RefOf(h, convId)
       IN /\ histories' = Pushed(h, convId, history,
                                 [role |-> "user", content |-> userPrompt])
          /\ writer' = PushedBy(w, convId, history, t)
          /\ turns' = [turns EXCEPT ![t] =
                 [IdleTurn EXCEPT !.pc = "initial", !.userPrompt = userPrompt,
                                  !.convId = convId, !.history = history]]
          /\ pre' = [pre EXCEPT ![t] = h[convId][history]]
          /\ alone' = [Touched(t, convId) EXCEPT ![t] =
                 ~\E u \in Turns : u # t /\ InFlight(u) /\ turns[u].convId = convId]
          /\ appended' = AppendedAfterPush(h, convId, history,
                                           [role |-> "user", content |-> userPrompt])
    /\ UNCHANGED <<backendVars, requests, clears, snapshot>>

\* POST /api/chat with the body {message, conversationId}: 503 while the
\* agent is not initialized, 400 when there is no message, and else
\* agent.processPrompt(message), up to its first await; the response will
\* echo the conversationId of the body
PostChat(t, message, conversationId) ==
    /\ turns[t].pc = "idle"
    /\ \A u \in Turns : u < t => turns[u].pc # "idle"
    /\ chat' = [chat EXCEPT ![t] = conversationId]
    /\ IF ~isInitialized \/ message = ""
       THEN /\ turns' = [turns EXCEPT ![t] =
                  [IdleTurn EXCEPT !.pc = IF ~isInitialized THEN "answered_503"
                                          ELSE "answered_400"]]
            /\ UNCHANGED <<backendVars, histories, requests, clears, writer, pre,
                           alone, appended, snapshot>>
       ELSE ProcessPrompt(t, message, Undefined)

\* The initial completion arrives: the assistant message is pushed, and the
\* turn returns it or goes on into executeToolsAndRespond, which starts with
\* ensureHistory and histories.get
InitialReply(t, assistantMessage) ==
    /\ turns[t].pc = "initial"
    /\ LET tr == turns[t]
           h1 == Pushed(histories, tr.convId, tr.history,
                        [role |-> "assistant", content |-> assistantMessage])
           w1 == PushedBy(writer, tr.convId, tr.history, t)
           useTools == <<assistantMessage, tr.userPrompt>> \in KeywordPairs
                       /\ Len(tools) > 0
           next == IF useTools
                   THEN AfterTools([tr EXCEPT !.assistantMessage = assistantMessage,
                                              !.history = RefOf(Ensured(h1, tr.convId),
                                                                tr.convId),
                                              !.execReqs = RequestsOf[tr.userPrompt]], 1)
                   ELSE Return(tr, "returned_plain", assistantMessage)
       IN /\ histories' = IF useTools THEN Ensured(h1, tr.convId) ELSE h1
          /\ writer' = IF useTools THEN EnsuredWriter(h1, w1, tr.convId) ELSE w1
          /\ turns' = [turns EXCEPT ![t] = next]
          /\ requests' = RequestsAfter(t, next)
          /\ alone' = AloneAfterPush(t, tr)
          /\ appended' = AppendedAfterPush(histories, tr.convId, tr.history,
                               [role |-> "assistant", content |-> assistantMessage])
    /\ UNCHANGED <<backendVars, chat, clears, pre, snapshot>>

\* Fault: a catch block that rolls the turn's user message back before
\* rethrowing
InitialFailRollsBack(t) ==
    /\ turns[t].pc = "initial"
    /\ LET tr == turns[t] IN
       /\ histories' = [histories EXCEPT ![tr.convId][tr.history] =
                            SubSeq(@, 1, Len(@) - 1)]
       /\ writer' = [writer EXCEPT ![tr.convId][tr.history] = SubSeq(@, 1, Len(@) - 1)]
       /\ turns' = [turns EXCEPT ![t] = Return(tr, "thrown", "")]
    /\ UNCHANGED <<backendVars, chat, requests, clears, pre, alone, appended, snapshot>>

\* The initial completion fails: processPrompt logs and rethrows
InitialFail(t) ==
    /\ turns[t].pc = "initial"
    /\ turns' = [turns EXCEPT ![t] = Return(turns[t], "thrown", "")]
    /\ UNCHANGED <<backendVars, chat, histories, requests, clears, writer, pre, alone,
                   appended, snapshot>>

\* The awaited executeTool resolves with the body of a 200 answer: the
\* result is kept, a system note is pushed, and the families go on
ToolResult(t, result) ==
    /\ turns[t].pc = "tool"
    /\ turns[t].call.sent
    /\ LET tr == turns[t]
           tool == tr.call.name
           note == [role |-> "system",
                    content |-> "Tool " \o tool \o " result: " \o JSONStringify(result)]
           next == AfterTools([tr EXCEPT !.toolResults =
                                   Append(@, [tool |-> tool, result |-> result])],
                              tr.family + 1)
       IN /\ histories' = Pushed(histories, tr.convId, tr.history, note)
          /\ writer' = PushedBy(writer, tr.convId, tr.history, t)
          /\ turns' = [turns EXCEPT ![t] = next]
          /\ requests' = RequestsAfter(t, next)
          /\ alone' = AloneAfterPush(t, tr)
          /\ appended' = AppendedAfterPush(histories, tr.convId, tr.history, note)
    /\ UNCHANGED <<backendVars, chat, clears, pre, snapshot>>

\* Fault: a family whose catch rethrows, so that the rejection reaches the
\* catch of processPrompt
ToolFailRethrows(t) ==
    /\ turns[t].pc = "tool"
    /\ turns' = [turns EXCEPT ![t] = Return(turns[t], "thrown", "")]
    /\ UNCHANGED <<backendVars, chat, histories, requests, clears, writer, pre, alone,
                   appended, snapshot>>

\* The awaited executeTool rejects (client not connected, no client, network
\* error, timeout, non-2xx): the family's catch logs it and the families go on
ToolFail(t) ==
    /\ turns[t].pc = "tool"
    /\ LET tr == turns[t]
           next == AfterTools(tr, tr.family + 1)
       IN /\ turns' = [turns EXCEPT ![t] = next]
          /\ requests' = RequestsAfter(t, next)
    /\ UNCHANGED <<backendVars, chat, histories, clears, writer, pre, alone, appended,
                   snapshot>>

\* The synthesis completion arrives: it is pushed and returned
SynthesisReply(t, finalText) ==
    /\ turns[t].pc = "synthesis"
    /\ LET tr == turns[t] IN
       /\ histories' = Pushed(histories, tr.convId, tr.history,
                              [role |-> "assistant", content |-> finalText])
       /\ writer' = PushedBy(writer, tr.convId, tr.history, t)
       /\ turns' = [turns EXCEPT ![t] = Return(tr, "returned_final", finalText)]
       /\ alone' = AloneAfterPush(t, tr)
       /\ appended' = AppendedAfterPush(histories, tr.convId, tr.history,
                                        [role |-> "assistant", content |-> finalText])
    /\ UNCHANGED <<backendVars, chat, requests, clears, pre, snapshot>>

\* The synthesis completion fails: the outer catch of executeToolsAndRespond
\* logs it and returns assistantMessage
SynthesisFail(t) ==
    /\ turns[t].pc = "synthesis"
    /\ turns' = [turns EXCEPT ![t] =
                    Return(turns[t], "returned_catch", turns[t].assistantMessage)]
    /\ UNCHANGED <<backendVars, chat, histories, requests, clears, writer, pre, alone,
                   appended, snapshot>>

\* Fault: a clear that empties the conversation
EmptiedHistory == <<>>

\* The array clearConversationHistory stores
\* Fault: the clear stores the instructions twice
DoubledInstructions == <<SystemMessage, SystemMessage>>

ClearedHistory == <<SystemMessage>>

ClearConversationHistory(conversationId) ==
    /\ LET id == IdOf(conversationId) IN
       /\ histories' = [histories EXCEPT ![id] = Append(@, ClearedHistory)]
       /\ writer' = [writer EXCEPT ![id] = Append(@, [i \in DOMAIN ClearedHistory |-> 0])]
       /\ alone' = Touched(0, id)
       /\ appended' = [appended EXCEPT ![id] = <<>>]
    /\ clears' = clears + 1
    /\ UNCHANGED <<backendVars, chat, turns, requests, pre, snapshot>>

\* A clearConversationHistory call, while fewer than max were made
BoundedClear(conversationId, max) ==
    /\ clears < max
    /\ ClearConversationHistory(conversationId)

\* getConversationHistory: ensureHistory, then a copy of the array
GetConversationHistory(conversationId) ==
    /\ LET id == IdOf(conversationId) IN
       /\ histories' = Ensured(histories, id)
       /\ writer' = EnsuredWriter(histories, writer, id)
    /\ UNCHANGED <<backendVars, chat, turns, requests, clears, pre, alone, appended,
                   snapshot>>

\* Fault: getConversationHistory returns the messages without the first
SnapshotWithoutInstructions(id, ref, messages) ==
    [taken |-> TRUE, id |-> id, shared |-> FALSE, ref |-> ref,
     messages |-> SubSeq(messages, 2, Len(messages)), edited |-> FALSE]

\* Fault: getConversationHistory returns the stored Message[] itself
SnapshotShared(id, ref, messages) ==
    [taken |-> TRUE, id |-> id, shared |-> TRUE, ref |-> ref,
     messages |-> messages, edited |-> FALSE]

\* `[...this.histories.get(id)!]`: a new array holding the messages of the
\* Message[] `ref` stored under id
SnapshotOf(id, ref, messages) ==
    [taken |-> TRUE, id |-> id, shared |-> FALSE, ref |-> ref,
     messages |-> messages, edited |-> FALSE]

\* The elements of the array the caller holds
SnapshotValue ==
    IF snapshot.shared THEN histories[snapshot.id][snapshot.ref] ELSE snapshot.messages

\* getConversationHistory(conversationId) whose caller keeps the returned array
KeepConversationHistory(conversationId) ==
    /\ LET id == IdOf(conversationId)
           h == Ensured(histories, id)
       IN
       /\ histories' = h
       /\ writer' = EnsuredWriter(histories, writer, id)
       /\ snapshot' = SnapshotOf(id, RefOf(h, id), h[id][RefOf(h, id)])
    /\ UNCHANGED <<backendVars, chat, turns, requests, clears, pre, alone, appended>>

\* What a caller puts into the array it was returned
CallerMessage == [role |-> "user", content |-> "written by the caller"]

CallerEdits == {"push", "pop", "replace"}

Edited(messages, edit) ==
    CASE edit = "push" -> Append(messages, CallerMessage)
      [] edit = "pop" -> SubSeq(messages, 1, Len(messages) - 1)
      [] edit = "replace" -> [messages EXCEPT ![1] = CallerMessage]

\* The caller modifies the array getConversationHistory returned to it (once
\* per returned array): a push, a pop, or an assignment to element 0
CallerEdit(edit) ==
    /\ snapshot.taken
    /\ ~snapshot.edited
    /\ Len(SnapshotValue) > 0
    /\ IF snapshot.shared
         THEN /\ histories' = [histories EXCEPT ![snapshot.id][snapshot.ref] =
                                   Edited(@, edit)]
              /\ snapshot' = [snapshot EXCEPT !.edited = TRUE]
         ELSE /\ histories' = histories
              /\ snapshot' = [snapshot EXCEPT !.messages = Edited(@, edit),
                                               !.edited = TRUE]
    /\ UNCHANGED <<backendVars, chat, turns, requests, clears, writer, pre, alone, appended>>

\* ------------------------------------------------------------------------
\* Specification
\* ------------------------------------------------------------------------
\* State after the module is loaded and the GeminiAgent constructed, for the
\* deployments `deployments` (what each backend serves): the constructor
\* creates the 'default' conversation
InitOf(deployments) ==
    /\ served \in deployments
    /\ isConnected = [b \in BackendSet |-> FALSE]
    /\ availableTools = [b \in BackendSet |-> <<>>]
    /\ initPc = "new"
    /\ probes = [b \in BackendSet |-> "none"]
    /\ listing = 0
    /\ listed = <<>>
    /\ tools = <<>>
    /\ isInitialized = FALSE
    /\ histories = [id \in ConvIds |-> IF id = "default" THEN <<InitialHistory>> ELSE <<>>]
    /\ writer = [id \in ConvIds |->
                    IF id = "default" THEN <<[i \in DOMAIN InitialHistory |-> 0]>> ELSE <<>>]
    /\ turns = [t \in Turns |-> IdleTurn]
    /\ requests = {}
    /\ clears = 0
    /\ pre = [t \in Turns |-> <<>>]
    /\ alone = [t \in Turns |-> TRUE]
    /\ appended = [id \in ConvIds |-> <<>>]
    /\ snapshot = NoSnapshot
    /\ wire = [b \in BackendSet |-> NoWire]
    /\ chat = [t \in Turns |-> ""]

\* initializeAgent, with the outcomes `oks` of the requests to the backends
NextInitialize(oks) ==
    \/ StartInitialize
    \/ \E b \in BackendSet, ok \in oks : ConnectSettle(b, ok)
    \/ ConnectDone
    \/ \E ok \in oks : GetToolsSettle(ok)

\* The turns `ts`, begun with an utterance of `prompts` and a conversationId
\* argument of `cargs`
NextTurnSteps(ts) ==
    \/ \E t \in ts, r \in Replies : InitialReply(t, r)
    \/ \E t \in ts : InitialFail(t)
    \/ \E t \in ts, r \in Payloads : ToolResult(t, r)
    \/ \E t \in ts : ToolFail(t)
    \/ \E t \in ts, r \in FinalTexts : SynthesisReply(t, r)
    \/ \E t \in ts : SynthesisFail(t)

NextTurnOn(ts, prompts, cargs) ==
    \/ \E t \in ts, p \in prompts, c \in cargs : ProcessPrompt(t, p, c) /\ UNCHANGED chat
    \/ NextTurnSteps(ts)

NextTurn(ts, cargs) == NextTurnOn(ts, Prompts, cargs)

NextStore(cargs) ==
    \/ \E c \in cargs : BoundedClear(c, MaxClears)
    \/ \E c \in cargs : GetConversationHistory(c)

\* Concurrent requests to the web API server (POST /api/chat calls
\* processPrompt(message), with no conversationId) of the standard deployment,
\* whose backends answer every connect and every tool listing
Init == InitOf({StandardDeployment})

Next == NextInitialize({TRUE}) \/ NextTurn(Turns, {Undefined}) \/ NextStore({Undefined})

Spec == Init /\ [][Next]_vars

\* One caller of the agent's public methods, for every deployment, whose
\* backends may fail any connect and any tool listing
InitBackends == InitOf(Deployments)

NextBackends ==
    NextInitialize(BOOLEAN) \/ NextTurn({1}, ConversationArgs) \/ NextStore(ConversationArgs)

SpecBackends == InitBackends /\ [][NextBackends]_vars
\* The catalog over time, for every deployment: initializeAgent, then later
\* connect() calls on the clients and GET /api/tools requests, any of whose
\* requests to the backends may fail
NextCatalog ==
    \/ NextInitialize(BOOLEAN)
    \/ \E b \in BackendSet, ok \in BOOLEAN : Reconnect(b, ok)
    \/ StartRefresh
    \/ \E ok \in BOOLEAN : RefreshSettle(ok)

SpecCatalog == InitBackends /\ [][NextCatalog]_vars

\* The client of MCP_SERVER_URL used directly, as the CLI uses its MCPClient
\* (the other clients are reached through initializeAgent only): connect() calls
\* that succeed or fail, disconnect() calls, and getAvailableTools and
\* executeTool calls, before, during and after initializeAgent
DirectClients == {"enhanced"}

NextClient ==
    \/ NextInitialize(BOOLEAN)
    \/ \E b \in DirectClients, ok \in BOOLEAN : Reconnect(b, ok)
    \/ \E b \in DirectClients : Disconnect(b)
    \/ \E b \in DirectClients, kind \in {"tools", "execute"} : ClientCall(b, kind)
    \/ \E b \in DirectClients, ok \in BOOLEAN : ClientSettle(b, ok)

SpecClient == Init /\ [][NextClient]_vars

\* The conversation store of the standard deployment: one caller at a time
\* on the conversations 'default' and 'c1', who clears, and who keeps what
\* getConversationHistory returns and modifies it
StorePrompts == {"extract email from url http://x.io"}

StoreArgs == {Undefined, "c1"}

NextConversations ==
    \/ NextInitialize({TRUE})
    \/ NextTurnOn({1}, StorePrompts, StoreArgs)
    \/ \E c \in StoreArgs : BoundedClear(c, MaxStoreClears)
    \/ \E c \in StoreArgs : KeepConversationHistory(c)
    \/ \E edit \in CallerEdits : CallerEdit(edit)

SpecConversations == Init /\ [][NextConversations]_vars

\* Concurrent callers on the conversations 'default' and 'c1' of the standard
\* deployment: two turns in flight at once, on the same or on different ids
NextIndependent ==
    \/ NextInitialize({TRUE})
    \/ NextTurnOn(Turns, StorePrompts, StoreArgs)
    \/ NextStore(StoreArgs)

SpecIndependent == Init /\ [][NextIndependent]_vars

\* The web API server of the standard deployment from app.listen on:
\* initializeAgent, which succeeds or fails, and meanwhile and afterwards
\* POST /api/chat requests, with and without a message and a conversationId,
\* and GET /api/tools requests
ApiMessages == StorePrompts \cup {""}

ApiConversations == {"c1", "c2"}

NextApi ==
    \/ NextInitialize({TRUE})
    \/ InitializeFails
    \/ \E t \in Turns, m \in ApiMessages, c \in ApiConversations : PostChat(t, m, c)
    \/ NextTurnSteps(Turns)
    \/ StartRefresh
    \/ RefreshSettle(TRUE)

SpecApi == Init /\ [][NextApi]_vars

\* One turn of the standard deployment, for every utterance, on the
\* conversation 'default' or 'c1'
NextPhases ==
    \/ NextInitialize({TRUE})
    \/ NextTurnOn({1}, Utterances, StoreArgs)

SpecPhases == Init /\ [][NextPhases]_vars

\* One turn on any utterance, with and without family triggers, for every
\* deployment and every outcome of the requests to the backends
NextUtterances ==
    \/ NextInitialize(BOOLEAN)
    \/ NextTurnOn({1}, Utterances, {Undefined})

SpecUtterances == InitBackends /\ [][NextUtterances]_vars

\* ------------------------------------------------------------------------
\* Properties
\* ------------------------------------------------------------------------
\* The name of the i-th entry of the agent's tool list
ToolName(i) == tools[i].function.name

\* The backends whose own tool list holds the name, and the one of them whose
\* list getAvailableTools merged last
AdvertisersOf(name) ==
    {i \in DOMAIN Backends :
        \E k \in DOMAIN availableTools[Backends[i]] :
            availableTools[Backends[i]][k].function.name = name}

LastAdvertiserOf(name) ==
    Backends[CHOOSE i \in AdvertisersOf(name) : \A j \in AdvertisersOf(name) : j <= i]

\* The prompt whose extraction issues two invocations (web_scraper, then
\* data_extractor)
TwoToolPrompt == "extract email from url http://x.io"

\* C1: every conversation in the store has a non-empty history whose first
\* message is the instructions message, and no later message of it is the
\* instructions message (it was inserted once, at index 0), whatever calls
\* of processPrompt, getConversationHistory and clearConversationHistory
\* were made, failed turns included.
C1_InstructionsFirst ==
    \A id \in ConvIds :
        Has(histories, id) =>
            /\ Len(HistoryOf(id)) >= 1
            /\ HistoryOf(id)[1] = SystemMessage
            /\ \A i \in 2..Len(HistoryOf(id)) : HistoryOf(id)[i] # SystemMessage

\* A conversation created by ensureHistory, cleared, and appended to since
C1_Witness ==
    /\ Len(histories["c1"]) = 2
    /\ Len(HistoryOf("c1")) > 1

\* C2: the messages of two turns on one conversation are never interleaved
\* in its history: no message of a turn lies between two messages of
\* another turn.
C2_NoInterleaving ==
    \A id \in ConvIds :
        Has(histories, id) =>
            LET w == writer[id][RefOf(histories, id)] IN
            \A i, j, k \in DOMAIN w :
                (i < j /\ j < k /\ w[i] # 0 /\ w[i] = w[k]) => w[j] = w[i]

\* C3: the result set handed to synthesis holds one result per invocation
\* that the turn's extraction issued.
C3_OneResultPerInvocation ==
    \A t \in Turns :
        turns[t].pc = "synthesis" =>
            Len(turns[t].toolResults) =
                Cardinality({f \in DOMAIN turns[t].execReqs : turns[t].execReqs[f].issued})

\* C4: a turn whose synthesis completion fails (it leaves the synthesis step
\* with no message appended) fails to its caller and returns no text.
C4_SynthesisFailureThrows ==
    [][\A t \in Turns :
          (turns[t].pc = "synthesis" /\ turns'[t].pc # "synthesis" /\ histories' = histories)
              => (turns'[t].pc = "thrown" /\ turns'[t].result = "")]_vars

C6_ToolFailureNotRaised ==
    [][\A t \in Turns :
          turns[t].pc = "tool" =>
              /\ turns'[t].pc \in {"tool", "synthesis", "returned_noresults"}
              /\ turns'[t].pc = "returned_noresults" =>
                     turns'[t].result = turns[t].assistantMessage]_vars

\* A turn that issued two invocations, of which exactly one failed, and
\* returned the synthesized text
C6_Witness ==
    /\ turns[1].pc = "returned_final"
    /\ turns[1].userPrompt = TwoToolPrompt
    /\ turns[1].result \in FinalTexts
    /\ alone[1]
    /\ Len(HistoryOf(turns[1].convId)) = Len(pre[1]) + 4

\* C7: when processPrompt has returned text for a conversation that nothing
\* else touched during the turn, the last message of the conversation's
\* history is an assistant message with that text.
C7_ReturnedTextIsLast ==
    \A t \in Turns :
        (Returned(t) /\ alone[t]) =>
            LET h == HistoryOf(turns[t].convId) IN
            h[Len(h)] = [role |-> "assistant", content |-> turns[t].result]

\* C8: no execute request is sent to a backend for a tool name that the
\* catalog does not hold.
C8_UnadvertisedNotSent ==
    \A q \in requests : \E i \in DOMAIN tools : ToolName(i) = q.name

\* C9: tool names in the merged catalog are unique.
C9_UniqueNames ==
    \A i, j \in DOMAIN tools : ToolName(i) = ToolName(j) => i = j

\* C10: an execute request for a name of the catalog is sent to the backend
\* whose tool list, holding that name, was merged last.
C10_RoutedToLastAdvertiser ==
    \A q \in requests :
        (\E i \in DOMAIN tools : ToolName(i) = q.name) =>
            /\ AdvertisersOf(q.name) # {}
            /\ q.backend = LastAdvertiserOf(q.name)
\* The tool list of backend b if it connected and listed its tools (its
\* MCPClient then keeps the list in availableTools), and else no tool
ListedBy(b) ==
    IF isConnected[b] /\ availableTools[b] # <<>> THEN MapTools(b, served[b]) ELSE <<>>

\* C11: whichever backends failed their connect or their tool listing, once
\* initializeAgent has run GeminiAgent.initialize has succeeded and the
\* agent's tool list is the concatenation, in the order enhanced, firecrawl,
\* composio, of the lists of the backends that connected and listed.
C11_ToolsOfWorkingBackends ==
    initPc = "done" =>
        /\ isInitialized
        /\ tools = ListedBy("enhanced") \o ListedBy("firecrawl") \o ListedBy("composio")

\* Initialization done although firecrawl failed to connect and enhanced
\* failed to list: the tool list is composio's
C11_Witness ==
    /\ initPc = "done"
    /\ isInitialized
    /\ ~isConnected["firecrawl"]
    /\ isConnected["enhanced"] /\ availableTools["enhanced"] = <<>>
    /\ tools = MapTools("composio", served["composio"])
\* C12: the reachability state of a client is the outcome of its last
\* connect(): false after a connect() that failed, true after one that
\* succeeded.
C12_ConnectedIsLastOutcome ==
    \A b \in BackendSet :
        /\ probes[b] = "down" => ~isConnected[b]
        /\ probes[b] = "up" => isConnected[b]

\* C13: the catalog returned by the last getAvailableTools call holds the
\* entries of every backend that has listed its tools before, also of one
\* whose listing failed in that call.
C13_StaleEntriesRetained ==
    initPc = "done" =>
        \A b \in BackendSet : \A k \in DOMAIN availableTools[b] :
            \E i \in DOMAIN listed : listed[i] = availableTools[b][k]
\* What the Map holds for id: its messages, or nothing when id is not a key
Stored(h, id) == IF Has(h, id) THEN h[id][RefOf(h, id)] ELSE <<>>

IsPrefix(s, t) == Len(s) <= Len(t) /\ SubSeq(t, 1, Len(s)) = s

\* C14: a clearConversationHistory(id) call leaves exactly one message, the
\* instructions, under id, whatever was stored before and whether or not id
\* was a key; a clear of a conversation that holds only the instructions
\* leaves what every conversation holds as it was (twice is the same as once)
C14_ClearLeavesInstructions ==
    [][\A c \in StoreArgs :
          ClearConversationHistory(c) =>
             /\ Stored(histories', IdOf(c)) = <<SystemMessage>>
             /\ Stored(histories, IdOf(c)) = <<SystemMessage>> =>
                   \A id \in ConvIds : Stored(histories', id) = Stored(histories, id)]_vars

\* 'default' held a turn's messages, was cleared, and was cleared again
C14_Witness ==
    /\ clears = 2
    /\ Len(histories["default"]) = 3
    /\ Len(histories["default"][1]) > 1
    /\ Stored(histories, "default") = <<SystemMessage>>

\* C15: between two observations of a conversation with no clear of its id
\* in between, the earlier history is a prefix of the later one
C15_AppendOnly ==
    [][\A id \in ConvIds :
          (Has(histories, id) /\ RefOf(histories', id) = RefOf(histories, id)) =>
              IsPrefix(Stored(histories, id), Stored(histories', id))]_vars

\* Two turns appended to 'default' since it was last stored
C15_Witness ==
    /\ Len(Stored(histories, "default")) >= 6
    /\ \A t \in Turns : Returned(t)

\* C16: on a conversation that was never cleared since it was created,
\* getConversationHistory returns the instructions followed by the messages
\* the turns appended, in the order they were appended
C16_FreshHistoryIsAppended ==
    [][\A c \in StoreArgs :
          (KeepConversationHistory(c) /\ Len(histories'[IdOf(c)]) = 1) =>
              snapshot'.messages = <<SystemMessage>> \o appended'[IdOf(c)]]_vars

\* A whole turn with a tool call on the new conversation 'c1', then its history
C16_Witness ==
    /\ snapshot.taken /\ ~snapshot.edited
    /\ snapshot.id = "c1"
    /\ Len(histories["c1"]) = 1
    /\ Len(snapshot.messages) >= 5
    /\ snapshot.messages = Stored(histories, "c1")

\* C17: the array getConversationHistory returned is changed by no later
\* append or clear, and the caller's changes to it (an element added,
\* removed or replaced) change nothing in the store
C17_SnapshotIndependent ==
    [][snapshot.taken =>
          /\ snapshot' = snapshot => SnapshotValue' = SnapshotValue
          /\ (\E edit \in CallerEdits : CallerEdit(edit)) => histories' = histories]_vars

\* The conversation was appended to and cleared after its history was
\* returned, and the caller modified the returned array
C17_Witness ==
    /\ snapshot.taken /\ snapshot.edited
    /\ snapshot.ref < Len(histories[snapshot.id])
    /\ Len(histories[snapshot.id][snapshot.ref]) > Len(snapshot.messages) + 1

\* C18: a step of a turn on conversation A, a clear of A and a
\* getConversationHistory of A leave what is stored under every other id
\* as it was
C18_ConversationsIndependent ==
    [][/\ \A t \in Turns :
            turns'[t] # turns[t] =>
               \A id \in ConvIds \ {turns'[t].convId} : histories'[id] = histories[id]
       /\ \A c \in StoreArgs :
            (ClearConversationHistory(c) \/ GetConversationHistory(c)) =>
               \A id \in ConvIds \ {IdOf(c)} : histories'[id] = histories[id]]_vars

\* Two turns in flight at once on different conversations, both past their
\* first appends
C18_Witness ==
    /\ turns[1].pc = "synthesis"
    /\ turns[2].pc = "tool"
    /\ turns[1].convId # turns[2].convId

\* The phases of a turn, and the phase each may be followed by
PhaseOrder ==
    {<<"idle", "initial">>,
     <<"initial", "returned_plain">>, <<"initial", "thrown">>, <<"initial", "tool">>,
     <<"initial", "returned_noresults">>, <<"initial", "returned_catch">>,
     <<"tool", "tool">>, <<"tool", "synthesis">>, <<"tool", "returned_noresults">>,
     <<"tool", "returned_catch">>,
     <<"synthesis", "returned_final">>, <<"synthesis", "returned_catch">>}

\* C19: a turn goes through its phases once and in order (initial
\* completion, tool executions family after family, at most one synthesis,
\* return); the synthesis request is sent only once no execution is pending,
\* no execution is requested after it, and it is sent if and only if the
\* turn has a tool result
C19_PhasesInOrder ==
    [][\A t \in Turns :
          LET a == turns[t]
              b == turns'[t]
          IN a # b =>
               /\ <<a.pc, b.pc>> \in PhaseOrder
               /\ (a.pc = "tool" /\ b.pc = "tool") => b.family > a.family
               /\ a.pc \notin {"initial", "tool"} => requests' = requests
               /\ b.pc = "synthesis" => Len(b.toolResults) > 0
               /\ (a.pc = "tool" /\ b.pc \in {"returned_noresults", "returned_catch"}) =>
                     (Len(a.toolResults) = 0 /\ histories' = histories)]_vars

\* The substrings of the lower-cased utterance that open a tool family
FamilyTriggers ==
    {"scrape", "url", "extract", "email", "send email", "whatsapp", "send message",
     "calendar", "schedule", "event"}

HasTrigger(userPrompt) ==
    \E k \in FamilyTriggers : Includes(ToLowerCase(userPrompt), k)

LastOf(h, id, ref) == h[id][ref][Len(h[id][ref])]

\* C21: a turn that ends with no tool result returns the text of its
\* initial completion and sends no synthesis request; the utterance
\* "What is the capital of France?" hands nothing to executeTool
C21_NoResultsReturnsPlain ==
    [][\A t \in Turns :
          LET a == turns[t]
              b == turns'[t]
              noResult == \/ a.pc = "initial"
                          \/ a.pc = "tool" /\ Len(a.toolResults) = 0
                                           /\ histories' = histories
          IN (a # b /\ noResult /\ b.pc # "thrown") =>
               /\ b.pc # "synthesis"
               /\ b.userPrompt = "What is the capital of France?" =>
                     (b.pc \in {"returned_plain", "returned_noresults"}
                        /\ \A r \in requests' : r.turn # t)
               /\ b.pc \notin {"tool"} =>
                     /\ b.pc \in {"returned_plain", "returned_noresults", "returned_catch"}
                     /\ b.result =
                           IF a.pc = "initial"
                           THEN LastOf(histories', a.convId, a.history).content
                           ELSE a.assistantMessage
                     /\ b.result \in Replies]_vars

\* Both executions of a turn failed: it returned its initial completion
C21_Witness ==
    /\ turns[1].pc = "returned_noresults"
    /\ turns[1].result = "I will use the web tool."
    /\ Cardinality({r \in requests : r.turn = 1}) = 2
    /\ Len(HistoryOf("default")) = 3

\* The address-shaped tokens of an utterance: its runs of non-space
\* characters that hold an '@' with a character on either side
AddressTokens(s) ==
    {SubSeq(s, i, i + RunLen(s, i, "NotSpace") - 1) :
        i \in {k \in 1..Len(s) :
                 /\ NotSpace(CharAt(s, k))
                 /\ (k = 1 \/ IsSpace(CharAt(s, k - 1)))
                 /\ \E j \in (k + 1)..(k + RunLen(s, k, "NotSpace") - 2) :
                       CharAt(s, j) = "@"}}

\* The turn t is in executeToolsAndRespond, past the families' extraction
Extracted(t) == turns[t].pc \in {"tool", "synthesis"}

\* C22: for an utterance that holds "email" and an address-shaped token,
\* the email family builds the composio_send_email request, and its `to`
\* argument is that token
C22_EmailToToken ==
    \A t \in Turns :
        (/\ Extracted(t)
         /\ Includes(ToLowerCase(turns[t].userPrompt), "email")
         /\ AddressTokens(turns[t].userPrompt) # {}) =>
            LET execReq == turns[t].execReqs[3] IN
            /\ execReq.issued
            /\ execReq.name = "composio_send_email"
            /\ execReq.arguments.to \in AddressTokens(turns[t].userPrompt)

\* The families that build an execReq for the turn t
IssuedBy(t) == {f \in DOMAIN Families : turns[t].execReqs[f].issued}

\* C23: "Send email to a@b.com about Test with message Hello" yields one
\* invocation, composio_send_email, with to = "a@b.com", subject = "Test"
\* and body = "Hello"
C23_EmailScenario ==
    \A t \in Turns :
        (/\ Extracted(t)
         /\ turns[t].userPrompt = "Send email to a@b.com about Test with message Hello") =>
            /\ IssuedBy(t) = {3}
            /\ turns[t].execReqs[3].name = "composio_send_email"
            /\ turns[t].execReqs[3].arguments =
                  [to |-> "a@b.com", subject |-> "Test", body |-> "Hello"]

\* The keywords that open each family, looked for in the lower-cased utterance
FamilyGates ==
    <<{"scrape", "url"}, {"extract", "email"}, {"send email", "email"},
      {"whatsapp", "send message"}, {"calendar", "schedule", "event"}>>

Gated(f, userPrompt) ==
    \E k \in FamilyGates[f] : Includes(ToLowerCase(userPrompt), k)

\* C24: a turn that enters executeToolsAndRespond issues the invocation of
\* every family whose keyword gate the utterance passes
C24_GatedFamilyIssues ==
    [][\A t \in Turns :
          LET a == turns[t]
              b == turns'[t]
          IN (a.pc = "initial"
                /\ b.pc \in {"tool", "returned_noresults", "returned_catch"}) =>
               \A f \in DOMAIN Families :
                   Gated(f, a.userPrompt) =>
                      (b.pc = "tool" /\ b.execReqs[f].issued /\ ~Threw(b.execReqs[f]))]_vars

\* The family whose result the system note `message` records (0: not a note)
NoteFamily(message) ==
    LET fs == {f \in DOMAIN Families :
                 /\ message.role = "system"
                 /\ StartsWith(message.content, "Tool " \o Families[f] \o " result: ")}
    IN IF fs = {} THEN 0 ELSE Min(fs)

\* C25: the invocations of a turn are handed to executeTool in the order of
\* the families, whatever the order of the triggers in the utterance, none
\* that builds a request is passed over, and the system notes of a turn lie
\* in its history in that order, at most one per family
C25_FamilyOrder ==
    [][\A t \in Turns :
          LET a == turns[t]
              b == turns'[t]
              prev == IF a.pc = "initial" THEN 0 ELSE a.family
          IN /\ (a # b /\ a.pc \in {"initial", "tool"} /\ b.pc = "tool") =>
                  /\ b.family > prev
                  /\ b.call.name = Families[b.family]
                  /\ \A g \in (prev + 1)..(b.family - 1) : ~b.execReqs[g].issued
             /\ (a.pc = "tool" /\ b.pc \in {"synthesis", "returned_noresults"}) =>
                  \A g \in (a.family + 1)..Len(Families) : ~a.execReqs[g].issued
             /\ \A id \in ConvIds : \A r \in DOMAIN histories'[id] :
                  LET h == histories'[id][r]
                      w == writer'[id][r]
                  IN \A i, j \in DOMAIN h :
                        (i < j /\ w[i] = w[j] /\ NoteFamily(h[i]) # 0 /\ NoteFamily(h[j]) # 0)
                            => NoteFamily(h[i]) < NoteFamily(h[j])]_vars

\* The email request came first in the utterance and the scrape request
\* last: web_scraper, data_extractor, composio_send_email were noted in
\* that order
C25_Witness ==
    /\ turns[1].pc = "returned_final"
    /\ turns[1].userPrompt = "send email to a@b.com about x, extract url http://x.io"
    /\ Len(HistoryOf("default")) = 7
    /\ NoteFamily(HistoryOf("default")[4]) = 1
    /\ NoteFamily(HistoryOf("default")[5]) = 2
    /\ NoteFamily(HistoryOf("default")[6]) = 3

\* The phone-number-shaped tokens of an utterance, as their digits: its runs
\* of non-space characters made of an optional '+' and then digits only
PhoneDigits(s) ==
    {d \in {LET tok == SubSeq(s, i, i + RunLen(s, i, "NotSpace") - 1)
            IN IF CharAt(tok, 1) = "+" THEN SubSeq(tok, 2, Len(tok)) ELSE tok :
              i \in {k \in 1..Len(s) : NotSpace(CharAt(s, k))
                                        /\ (k = 1 \/ IsSpace(CharAt(s, k - 1)))}} :
        Len(d) > 0 /\ \A j \in 1..Len(d) : IsDigit(CharAt(d, j))}

\* C26: for an utterance with a WhatsApp trigger and a phone-number-shaped
\* token, the phoneNumber argument of the composio_whatsapp_message request
\* is '+' followed by the digits of that token
C26_PhoneNumberIsToken ==
    \A t \in Turns :
        (/\ Extracted(t)
         /\ Gated(4, turns[t].userPrompt)
         /\ PhoneDigits(turns[t].userPrompt) # {}) =>
            LET execReq == turns[t].execReqs[4] IN
            /\ execReq.issued
            /\ execReq.name = "composio_whatsapp_message"
            /\ \E d \in PhoneDigits(turns[t].userPrompt) :
                  execReq.arguments.phoneNumber = "+" \o d

\* ------------------------------------------------------------------------
\* C27: an MCPClient sends a request to /tools or /tools/<name>/execute only
\* while it is connected: a getAvailableTools or executeTool call made when
\* no connect() has succeeded since the client was constructed or last
\* disconnected is refused ('MCP client not connected') without a request
\* being sent, also after a disconnect() followed by connect() calls that
\* failed, and a request is in flight only if the call was sent
\* ------------------------------------------------------------------------
C27_SendsOnlyWhileConnected ==
    \A b \in BackendSet :
        /\ ~wire[b].succeeded => ~isConnected[b]
        /\ wire[b].last = "sent" => wire[b].entitled
        /\ (wire[b].last # "none" /\ ~wire[b].entitled) => wire[b].last = "refused"
        /\ wire[b].pending # "none" => wire[b].last = "sent"

\* a client that was disconnected, and whose later connect() failed, refused
\* a call
C27_Witness ==
    \E b \in BackendSet :
        /\ wire[b].disconnected /\ wire[b].retried
        /\ ~wire[b].succeeded
        /\ wire[b].last = "refused"
        /\ probes[b] = "down"

\* ------------------------------------------------------------------------
\* C28: the web API never runs a turn on an agent that is not initialized:
\* isInitialized is true only once agent.initialize() has completed, it is
\* false while initializeAgent has not finished or has failed, a POST
\* /api/chat that arrives while it is false is answered 503 and touches no
\* history and sends nothing, and a GET /api/tools lists tools only while it
\* is true
\* ------------------------------------------------------------------------
C28_NoTurnBeforeInitialized ==
    [][/\ isInitialized' => initPc' \in {"done", "refresh"}
       /\ initPc' = "refresh" => isInitialized'
       /\ \A t \in Turns :
            /\ (turns[t].pc = "idle" /\ turns'[t].pc # "idle") =>
                  IF isInitialized
                  THEN turns'[t].pc \in {"initial", "answered_400"}
                  ELSE /\ turns'[t].pc = "answered_503"
                       /\ UNCHANGED <<histories, writer, requests>>
            /\ (InFlight(t)' \/ Finished(t)') => isInitialized']_vars

\* a request that arrived between listen and the end of initializeAgent was
\* answered 503
C28_Witness == initPc = "list" /\ turns[1].pc = "answered_503" /\ ~isInitialized

\* ------------------------------------------------------------------------
\* C29: a POST /api/chat with conversationId c is processed in the
\* conversation c, the one its response echoes, and two requests with
\* different conversationIds never work on the same history
\* ------------------------------------------------------------------------
C29_RequestInItsConversation ==
    /\ \A t \in Turns :
          (InFlight(t) \/ Finished(t)) => turns[t].convId = chat[t]
    /\ \A t, u \in Turns :
          (/\ InFlight(t) \/ Finished(t)
           /\ InFlight(u) \/ Finished(u)
           /\ chat[t] # chat[u]) => turns[t].convId # turns[u].convId

\* ------------------------------------------------------------------------
\* C30: every stored history is whole turns after the instructions: the
\* message at index 1 has the role user, and every assistant message and
\* every tool note is preceded, in the same history, by the user message of
\* the turn that wrote it, also when clearConversationHistory is called
\* while a turn of the conversation is in flight
\* ------------------------------------------------------------------------
C30_WholeTurns ==
    \A id \in ConvIds :
        LET h == Stored(histories, id)
            w == IF Has(histories, id) THEN writer[id][RefOf(histories, id)] ELSE <<>>
        IN /\ Len(h) >= 2 => h[2].role = "user"
           /\ \A i \in DOMAIN h :
                 (w[i] # 0 /\ h[i].role # "user") =>
                     \E j \in 1..(i - 1) :
                         /\ w[j] = w[i]
                         /\ h[j] = [role |-> "user", content |-> turns[w[i]].userPrompt]

====
